---- MODULE Spec2Model ----
(***************************************************************************)
(* RealtimeService (services/realtimeService.js): the Socket.IO channel /  *)
(* subscription / publish engine with its connection lifecycle.            *)
(*                                                                         *)
(* Every handler of the service is an async function.  A handler runs      *)
(* synchronously up to its `await` on the persistence layer (Mongoose),    *)
(* is suspended there, and is resumed later - or the await rejects and the *)
(* handler's catch block runs.  Each handler is therefore modelled by one  *)
(* action for the part before the await and one action for each outcome of *)
(* the await; `pending` holds the suspended handlers.                      *)
(***************************************************************************)
EXTENDS Bags, FiniteSets, Integers, Sequences, TLC

(* ------------------------------ bounds -------------------------------- *)
MaxRequests == 6    \* requests, transport events and clock ticks the service receives
MaxPending  == 2    \* client requests suspended at an await at the same time
MaxTime     == 1    \* clock ticks

(* ------------------------------ strings ------------------------------- *)
\* startsWith and template concatenation work on the characters of a string:
\* Chars gives the characters of every string the model uses.
StartsWith(s, p) == Len(p) <= Len(s) /\ SubSeq(s, 1, Len(p)) = p

PUBLIC_  == <<"p","u","b","l","i","c",":">>
PRIVATE_ == <<"p","r","i","v","a","t","e",":">>
USER_    == <<"u","s","e","r",":">>
SYSTEM_  == <<"s","y","s","t","e","m",":">>

Chars(s) ==
  CASE s = "public:a"      -> PUBLIC_  \o <<"a">>
    [] s = "private:a"     -> PRIVATE_ \o <<"a">>
    [] s = "user:1"        -> USER_    \o <<"1">>
    [] s = "user:12"       -> USER_    \o <<"1","2">>
    [] s = "user:2"        -> USER_    \o <<"2">>
    [] s = "user:1:inbox"  -> USER_    \o <<"1",":","i","n","b","o","x">>
    [] s = "system:alerts" -> SYSTEM_  \o <<"a","l","e","r","t","s">>
    [] s = "chat"          -> <<"c","h","a","t">>
    [] s = "public"        -> <<"p","u","b","l","i","c">>
    [] s = "1"             -> <<"1">>
    [] s = "12"            -> <<"1","2">>
    [] s = "2"             -> <<"2">>
    [] s = "9"             -> <<"9">>

\* every topic name the authorization function is evaluated on
TopicNames == { "public:a", "private:a", "user:1", "user:12", "user:2",
                "user:1:inbox", "system:alerts", "chat", "public" }

\* the topic names the clients of the state machine use
Topics == { "private:a", "system:alerts" }

\* topic names without a known prefix, next to a public one
OtherTopics == { "chat", "public:a" }

NoTopic == "none"

(* ------------------------------ principals ---------------------------- *)
Undefined == "undefined"
RoleAdmin == "ROLE_ADMIN"
RoleUser  == "user"
PrivateChannelAccess == "private_channel_access"

UserIds     == { "1", "12", "2" }
Roles       == { RoleAdmin, RoleUser }
\* user.permissions: a list of permission strings, or the field is absent
NoPermissions == { Undefined }
Permissions   == { NoPermissions, {}, {PrivateChannelAccess} }

\* every principal the authorization function is evaluated on
Principals == [userId : UserIds, role : Roles, permissions : Permissions]

\* socket.user as io.use builds it from the handshake query: no permissions
SocketUser(userId, role) ==
  [userId |-> userId, role |-> role, permissions |-> NoPermissions]

Actions == { "subscribe", "publish" }

(* ------------------------------ connections --------------------------- *)
\* socket.id values; Socket.IO never issues the same id twice
ConnIds == { "s1", "s2" }

\* the handshake query (userId, userRole) each socket presents
Handshake(c) ==
  IF c = "s1" THEN { SocketUser("9", RoleAdmin) }
  ELSE { SocketUser("1", RoleUser) }

VARIABLES
  connections,      \* this.connections: the keys of the Map
  connObj,          \* the connection objects the Map's values refer to
  channels,         \* this.channels: topic -> [subscribers, messageCount]
  sequenceNumbers,  \* this.sequenceNumbers: topic -> last seq issued
  rooms,            \* Socket.IO adapter rooms: topic -> socket ids joined
  socket,           \* transport state of each socket
  bound,            \* sockets whose event handlers have been bound
  pending,          \* bag of handlers suspended at their await
  now,              \* Date.now()
  requests,         \* requests, transport events and clock ticks so far
  published,        \* history: successful publishes per topic name
  out,              \* outputs of the last handler that produced any
  permQ             \* an evaluation of hasPermission

vars == << connections, connObj, channels, sequenceNumbers, rooms, socket,
           bound, pending, now, requests, published, out, permQ >>

(* ------------------------------ helpers ------------------------------- *)
Put(f, k, v) == [x \in DOMAIN f \cup {k} |-> IF x = k THEN v ELSE f[x]]
Drop(f, k)   == [x \in DOMAIN f \ {k} |-> f[x]]
\* Map.get(k) || 0
GetOr0(f, k) == IF k \in DOMAIN f THEN f[k] ELSE 0

NewConnObj(user, t) ==
  [user |-> user, lastActivity |-> t, subscribedChannels |-> {}]

NoUser == [userId |-> "none", role |-> Undefined, permissions |-> NoPermissions]

\* data.messageId of the request (op, c, t); a response without an id field
MessageId(op, c, t) == << op, c, t >>
NoId == << >>

NoOut ==
  [op |-> "none", conn |-> "none", topic |-> NoTopic, type |-> "none",
   code |-> "none", count |-> 0, seq |-> 0, deliveredTo |-> 0,
   recipients |-> {}, failed |-> {}, emitted |-> FALSE, again |-> FALSE,
   id |-> NoId, stale |-> {}]

H(op, c, t) == [op |-> op, conn |-> c, topic |-> t]
Suspend(h)  == pending (+) SetToBag({h})
Finish(h)   == pending (-) SetToBag({h})

\* the state the handlers read and write, as one value
St ==
  [connections |-> connections, connObj |-> connObj, channels |-> channels,
   sequenceNumbers |-> sequenceNumbers, rooms |-> rooms, socket |-> socket,
   out |-> out]

Becomes(S) ==
  /\ connections'     = S.connections
  /\ connObj'         = S.connObj
  /\ channels'        = S.channels
  /\ sequenceNumbers' = S.sequenceNumbers
  /\ rooms'           = S.rooms
  /\ socket'          = S.socket
  /\ out'             = S.out

\* the in-memory state a client can inspect: registry, directory, counters
Core(S) ==
  [connections |-> S.connections,
   membership  |-> [c \in S.connections |-> S.connObj[c].subscribedChannels],
   channels    |-> S.channels,
   sequenceNumbers |-> S.sequenceNumbers]

(* ------------------------------ responses ----------------------------- *)
\* `again`: the handler that completed just before on this service had the
\* same operation, connection and topic and was acknowledged as a success.
Again(S, op, c, t) ==
  S.out.op = op /\ S.out.conn = c /\ S.out.topic = t /\ S.out.type = "ack"

\* sendAck(callback, messageId, 'success', {topic, subscriberCount})
sendAck(S, op, c, t, n) ==
  [NoOut EXCEPT !.op = op, !.conn = c, !.topic = t, !.type = "ack",
                !.id = MessageId(op, c, t),
                !.code = "success", !.count = n, !.again = Again(S, op, c, t)]

\* sendError(callback, code, message)
sendError(op, c, t, code) ==
  [NoOut EXCEPT !.op = op, !.conn = c, !.topic = t, !.type = "error",
                !.code = code]

(* ------------------------------ authorization ------------------------- *)
\* Array.prototype.includes behind the optional chaining `permissions?.`
Includes(permissions, p) ==
  IF permissions = NoPermissions THEN Undefined
  ELSE IF p \in permissions THEN "true" ELSE "false"

hasPermission(user, topic, action) ==
  IF user.role = RoleAdmin THEN "true"
  ELSE IF StartsWith(Chars(topic), PUBLIC_) THEN "true"
  ELSE IF StartsWith(Chars(topic), PRIVATE_)
    THEN Includes(user.permissions, PrivateChannelAccess)
  ELSE IF StartsWith(Chars(topic), USER_ \o Chars(user.userId)) THEN "true"
  ELSE IF StartsWith(Chars(topic), SYSTEM_)
    THEN IF action = "publish"
           THEN (IF user.role = RoleAdmin THEN "true" ELSE "false")
           ELSE "true"
  ELSE "false"

(* ------------------------------ handleConnection ---------------------- *)
\* up to `await connectionData.save()`
handleConnection(S, c, user, t) ==
  [S EXCEPT !.connections = @ \cup {c},
            !.connObj[c]  = NewConnObj(user, t)]

(* ------------------------------ handleSubscribe ----------------------- *)
\* as handleSubscribe, writing the time of the request into the connection
\* object's lastActivity as well
SubscribeTouchesActivity(S, c, t) ==
  IF c \notin S.connections
    THEN [S EXCEPT !.out = sendError("subscribe", c, t, "connection_not_found")]
    ELSE [S EXCEPT !.rooms[t] = @ \cup {c},
                   !.connObj[c].subscribedChannels = @ \cup {t},
                   !.connObj[c].lastActivity = now]

\* up to `await Connection.findOneAndUpdate(...)`
handleSubscribe(S, c, t) ==
  IF c \notin S.connections
    THEN [S EXCEPT !.out = sendError("subscribe", c, t, "connection_not_found")]
    ELSE [S EXCEPT !.rooms[t] = @ \cup {c},
                   !.connObj[c].subscribedChannels = @ \cup {t}]

\* as handleSubscribeResume, reporting one more subscriber than the channel
\* had before instead of the size of the subscriber set
SubscribeCountsAdds(S, c, t) ==
  LET ch0 == IF t \in DOMAIN S.channels THEN S.channels
             ELSE Put(S.channels, t, [subscribers |-> {}, messageCount |-> 0])
      ch1 == [ch0 EXCEPT ![t].subscribers = @ \cup {c}]
  IN [S EXCEPT !.channels = ch1,
               !.out = sendAck(S, "subscribe", c, t,
                               Cardinality(ch0[t].subscribers) + 1)]

\* after the await
handleSubscribeResume(S, c, t) ==
  LET ch0 == IF t \in DOMAIN S.channels THEN S.channels
             ELSE Put(S.channels, t, [subscribers |-> {}, messageCount |-> 0])
      ch1 == [ch0 EXCEPT ![t].subscribers = @ \cup {c}]
  IN [S EXCEPT !.channels = ch1,
               !.out = sendAck(S, "subscribe", c, t,
                               Cardinality(ch1[t].subscribers))]

\* as handleSubscribeCatch, without the call of sendError
SubscribeCatchSilent(S, c, t) == S

\* the await rejected
handleSubscribeCatch(S, c, t) ==
  [S EXCEPT !.out = sendError("subscribe", c, t, "subscribe_failed")]

(* ------------------------------ handleUnsubscribe --------------------- *)
handleUnsubscribe(S, c, t) ==
  IF c \notin S.connections
    THEN [S EXCEPT !.out = sendError("unsubscribe", c, t, "connection_not_found")]
    ELSE [S EXCEPT !.rooms[t] = @ \ {c},
                   !.connObj[c].subscribedChannels = @ \ {t}]

\* as handleUnsubscribeResume, without the deletion of the emptied channel
UnsubscribeKeepsEmptyChannel(S, c, t) ==
  IF t \in DOMAIN S.channels
    THEN LET subs == S.channels[t].subscribers \ {c}
         IN [S EXCEPT !.channels[t].subscribers = subs,
                      !.out = sendAck(S, "unsubscribe", c, t, Cardinality(subs))]
    ELSE [S EXCEPT !.out = sendAck(S, "unsubscribe", c, t, 0)]

\* as handleUnsubscribeResume, deleting the channel when at most one
\* subscriber was left before the caller is removed
UnsubscribeDeletesAtOne(S, c, t) ==
  IF t \in DOMAIN S.channels
    THEN LET subs == S.channels[t].subscribers \ {c}
             ch1  == IF Cardinality(S.channels[t].subscribers) <= 1
                       THEN Drop(S.channels, t)
                       ELSE [S.channels EXCEPT ![t].subscribers = subs]
         IN [S EXCEPT !.channels = ch1,
                      !.out = sendAck(S, "unsubscribe", c, t, Cardinality(subs))]
    ELSE [S EXCEPT !.out = sendAck(S, "unsubscribe", c, t, 0)]

\* as handleUnsubscribeResume, deleting the sequence counter of the topic
\* together with the emptied channel
UnsubscribeClearsSequence(S, c, t) ==
  IF t \in DOMAIN S.channels
    THEN LET subs == S.channels[t].subscribers \ {c}
             ch1  == IF subs = {} THEN Drop(S.channels, t)
                     ELSE [S.channels EXCEPT ![t].subscribers = subs]
         IN [S EXCEPT !.channels = ch1,
                      !.sequenceNumbers = IF subs = {} THEN Drop(@, t) ELSE @,
                      !.out = sendAck(S, "unsubscribe", c, t, Cardinality(subs))]
    ELSE [S EXCEPT !.out = sendAck(S, "unsubscribe", c, t, 0)]

handleUnsubscribeResume(S, c, t) ==
  IF t \in DOMAIN S.channels
    THEN LET subs == S.channels[t].subscribers \ {c}
             ch1  == IF subs = {} THEN Drop(S.channels, t)
                     ELSE [S.channels EXCEPT ![t].subscribers = subs]
         IN [S EXCEPT !.channels = ch1,
                      !.out = sendAck(S, "unsubscribe", c, t, Cardinality(subs))]
    ELSE [S EXCEPT !.out = sendAck(S, "unsubscribe", c, t, 0)]

handleUnsubscribeCatch(S, c, t) ==
  [S EXCEPT !.out = sendError("unsubscribe", c, t, "unsubscribe_failed")]

(* ------------------------------ handlePublish ------------------------- *)
\* as getNextSequenceNumber, without the fallback to the stored value
SequenceNotRead(seqs, t) == Put(seqs, t, 1)

getNextSequenceNumber(seqs, t) == Put(seqs, t, GetOr0(seqs, t) + 1)

\* io.to(topic).emit: the adapter sends to the connected sockets of the room
RoomSockets(S, t) == { r \in S.rooms[t] : S.socket[r] = "connected" }

\* the subscribers of the topic the transport cannot send to: their socket
\* has closed and handleDisconnect has not removed them (yet)
FailedSends(S, t) ==
  { r \in S.channels[t].subscribers : S.socket[r] # "connected" }

\* as handlePublish, taking the sequence number before the channel check
PublishSequenceBeforeCheck(S, c, t, ackRequired) ==
  IF c \notin S.connections
    THEN [S EXCEPT !.out = sendError("publish", c, t, "connection_not_found")]
  ELSE IF t \notin DOMAIN S.channels
    THEN [S EXCEPT !.sequenceNumbers = getNextSequenceNumber(@, t),
                   !.out = sendError("publish", c, t, "channel_not_found")]
  ELSE
    LET seqs == getNextSequenceNumber(S.sequenceNumbers, t)
        msg  == [NoOut EXCEPT !.op = "publish", !.conn = c, !.topic = t,
                              !.seq = seqs[t], !.emitted = TRUE,
                              !.recipients = RoomSockets(S, t),
                              !.failed = FailedSends(S, t)]
    IN [S EXCEPT
          !.sequenceNumbers = seqs,
          !.channels[t].messageCount = @ + 1,
          !.out = IF ackRequired
                    THEN [msg EXCEPT !.type = "ack", !.code = "success",
                            !.id = MessageId("publish", c, t),
                            !.deliveredTo =
                               Cardinality(S.channels[t].subscribers)]
                    ELSE msg]

handlePublish(S, c, t, ackRequired) ==
  IF c \notin S.connections
    THEN [S EXCEPT !.out = sendError("publish", c, t, "connection_not_found")]
  ELSE IF t \notin DOMAIN S.channels
    THEN [S EXCEPT !.out = sendError("publish", c, t, "channel_not_found")]
  ELSE
    LET seqs == getNextSequenceNumber(S.sequenceNumbers, t)
        msg  == [NoOut EXCEPT !.op = "publish", !.conn = c, !.topic = t,
                              !.seq = seqs[t], !.emitted = TRUE,
                              !.recipients = RoomSockets(S, t),
                              !.failed = FailedSends(S, t)]
    IN [S EXCEPT
          !.sequenceNumbers = seqs,
          !.channels[t].messageCount = @ + 1,
          !.out = IF ackRequired
                    THEN [msg EXCEPT !.type = "ack", !.code = "success",
                            !.id = MessageId("publish", c, t),
                            !.deliveredTo =
                               Cardinality(S.channels[t].subscribers)]
                    ELSE msg]

(* ------------------------------ handleHeartbeat ----------------------- *)
\* as handleHeartbeat, registering the connection id when it is not in the
\* registry
HeartbeatRecreates(S, c, t) ==
  [S EXCEPT !.connections = @ \cup {c},
            !.connObj[c].lastActivity = t]

handleHeartbeat(S, c, t) ==
  IF c \in S.connections
    THEN [S EXCEPT !.connObj[c].lastActivity = t]
    ELSE S

handleHeartbeatResume(S, c) ==
  [S EXCEPT !.out = [NoOut EXCEPT !.op = "heartbeat", !.conn = c,
                                  !.type = "heartbeat_ack"]]

(* ------------------------------ handleDisconnect ---------------------- *)
\* after `await Connection.findOneAndUpdate(...)`: the loop over the
\* connection object's subscribedChannels, then connections.delete
\* as handleDisconnectResume, deleting a channel when at most one subscriber
\* was left before the connection is removed from it
DisconnectDeletesAtOne(S, c) ==
  LET mine    == S.connObj[c].subscribedChannels \cap DOMAIN S.channels
      emptied == { t \in mine : Cardinality(S.channels[t].subscribers) <= 1 }
  IN [S EXCEPT
        !.channels = [t \in DOMAIN S.channels \ emptied |->
                        IF t \in mine
                          THEN [S.channels[t] EXCEPT !.subscribers = @ \ {c}]
                          ELSE S.channels[t]],
        !.connections = @ \ {c}]

handleDisconnectResume(S, c) ==
  LET mine    == S.connObj[c].subscribedChannels \cap DOMAIN S.channels
      emptied == { t \in mine : S.channels[t].subscribers \ {c} = {} }
  IN [S EXCEPT
        !.channels = [t \in DOMAIN S.channels \ emptied |->
                        IF t \in mine
                          THEN [S.channels[t] EXCEPT !.subscribers = @ \ {c}]
                          ELSE S.channels[t]],
        !.connections = @ \ {c}]

\* the transport closes a socket: it leaves every room
CloseSocket(S, c) ==
  [S EXCEPT !.socket[c] = "disconnected",
            !.rooms = [t \in DOMAIN S.rooms |-> S.rooms[t] \ {c}]]

(* ------------------------------ cleanupStaleConnections --------------- *)
\* as Stale, selecting a connection already when its idle time equals the
\* timeout
StaleAtTimeout(S, t, timeoutMs) ==
  { c \in S.connections : t - S.connObj[c].lastActivity >= timeoutMs }

Stale(S, t, timeoutMs) ==
  { c \in S.connections : t - S.connObj[c].lastActivity > timeoutMs }

\* socket.disconnect(true) on every stale connection, in one synchronous loop
RECURSIVE CloseAll(_, _)
CloseAll(S, cs) ==
  IF cs = {} THEN S
  ELSE LET c == CHOOSE x \in cs : TRUE
       IN CloseAll(CloseSocket(S, c), cs \ {c})

(* ====================================================================== *)
(* The state machine                                                      *)
(* ====================================================================== *)
Timeouts == 0 .. MaxTime

NoQuery == [user |-> NoUser, topic |-> NoTopic, action |-> "none",
            result |-> "none"]

InitService ==
  /\ connections = {}
  /\ connObj = [c \in ConnIds |-> NewConnObj(NoUser, 0)]
  /\ channels = << >>
  /\ sequenceNumbers = << >>
  /\ rooms = [t \in Topics \cup OtherTopics |-> {}]
  /\ socket = [c \in ConnIds |-> "new"]
  /\ bound = {}
  /\ pending = EmptyBag
  /\ now = 0
  /\ requests = 0
  /\ published = [t \in Topics \cup OtherTopics |-> 0]
  /\ out = NoOut

Init == InitService /\ permQ = NoQuery

\* the service receives one more request, transport event or clock tick
Receive == requests < MaxRequests /\ requests' = requests + 1

Room == BagCardinality(pending) < MaxPending

\* a client event reaches its handler: the socket is connected and
\* bindEventHandlers has registered the handlers
Listening(c) == socket[c] = "connected" /\ c \in bound

\* Date.now() advances
Tick ==
  /\ now < MaxTime
  /\ now' = now + 1
  /\ Receive
  /\ UNCHANGED << connections, connObj, channels, sequenceNumbers, rooms,
                  socket, bound, pending, published, out, permQ >>

\* io.on('connection'): a new socket, handleConnection up to its await
Connection(c, user) ==
  /\ Receive
  /\ socket[c] = "new"
  /\ Room
  /\ Becomes(handleConnection([St EXCEPT !.socket[c] = "connected"],
                              c, user, now))
  /\ pending' = Suspend(H("connect", c, NoTopic))
  /\ UNCHANGED << bound, now, published, permQ >>

\* connectionData.save() resolved: bindEventHandlers, emit 'connected'
ConnectionResume(c) ==
  /\ BagIn(H("connect", c, NoTopic), pending)
  /\ pending' = Finish(H("connect", c, NoTopic))
  /\ bound' = bound \cup {c}
  /\ UNCHANGED << connections, connObj, channels, sequenceNumbers, rooms,
                  socket, now, requests, published, out, permQ >>

\* connectionData.save() rejected: the catch block emits 'error'
ConnectionCatch(c) ==
  /\ BagIn(H("connect", c, NoTopic), pending)
  /\ pending' = Finish(H("connect", c, NoTopic))
  /\ UNCHANGED << connections, connObj, channels, sequenceNumbers, rooms,
                  socket, bound, now, requests, published, out, permQ >>

Subscribe(c, t) ==
  /\ Receive
  /\ Listening(c)
  /\ Room
  /\ Becomes(handleSubscribe(St, c, t))
  /\ pending' = IF c \in connections THEN Suspend(H("subscribe", c, t))
                ELSE pending
  /\ UNCHANGED << bound, now, published, permQ >>

SubscribeResume(c, t) ==
  /\ BagIn(H("subscribe", c, t), pending)
  /\ pending' = Finish(H("subscribe", c, t))
  /\ Becomes(handleSubscribeResume(St, c, t))
  /\ UNCHANGED << bound, now, requests, published, permQ >>

SubscribeCatch(c, t) ==
  /\ BagIn(H("subscribe", c, t), pending)
  /\ pending' = Finish(H("subscribe", c, t))
  /\ Becomes(handleSubscribeCatch(St, c, t))
  /\ UNCHANGED << bound, now, requests, published, permQ >>

Unsubscribe(c, t) ==
  /\ Receive
  /\ Listening(c)
  /\ Room
  /\ Becomes(handleUnsubscribe(St, c, t))
  /\ pending' = IF c \in connections THEN Suspend(H("unsubscribe", c, t))
                ELSE pending
  /\ UNCHANGED << bound, now, published, permQ >>

UnsubscribeResume(c, t) ==
  /\ BagIn(H("unsubscribe", c, t), pending)
  /\ pending' = Finish(H("unsubscribe", c, t))
  /\ Becomes(handleUnsubscribeResume(St, c, t))
  /\ UNCHANGED << bound, now, requests, published, permQ >>

UnsubscribeCatch(c, t) ==
  /\ BagIn(H("unsubscribe", c, t), pending)
  /\ pending' = Finish(H("unsubscribe", c, t))
  /\ Becomes(handleUnsubscribeCatch(St, c, t))
  /\ UNCHANGED << bound, now, requests, published, permQ >>

\* handlePublish has no await: it runs to completion in one step
Publish(c, t, ackRequired) ==
  /\ Listening(c)
  /\ Receive
  /\ LET S2 == handlePublish(St, c, t, ackRequired)
     IN /\ Becomes(S2)
        /\ published' = IF S2.out.emitted
                          THEN [published EXCEPT ![t] = @ + 1]
                          ELSE published
  /\ UNCHANGED << bound, pending, now, permQ >>

Heartbeat(c) ==
  /\ Receive
  /\ Listening(c)
  /\ Room
  /\ Becomes(handleHeartbeat(St, c, now))
  /\ pending' = IF c \in connections THEN Suspend(H("heartbeat", c, NoTopic))
                ELSE pending
  /\ UNCHANGED << bound, now, published, permQ >>

HeartbeatResume(c) ==
  /\ BagIn(H("heartbeat", c, NoTopic), pending)
  /\ pending' = Finish(H("heartbeat", c, NoTopic))
  /\ Becomes(handleHeartbeatResume(St, c))
  /\ UNCHANGED << bound, now, requests, published, permQ >>

HeartbeatCatch(c) ==
  /\ BagIn(H("heartbeat", c, NoTopic), pending)
  /\ pending' = Finish(H("heartbeat", c, NoTopic))
  /\ UNCHANGED << connections, connObj, channels, sequenceNumbers, rooms,
                  socket, bound, now, requests, published, out, permQ >>

\* handleDisconnect up to its await, for the sockets of `cs` whose
\* 'disconnect' listener is bound and whose connection is registered
DisconnectHandlers(cs) ==
  SetToBag({ H("disconnect", c, NoTopic) : c \in (cs \cap bound) \cap connections })

\* the transport reports that a socket closed (client left, network error)
SocketDisconnect(c) ==
  /\ Receive
  /\ socket[c] = "connected"
  /\ Becomes(CloseSocket(St, c))
  /\ pending' = pending (+) DisconnectHandlers({c})
  /\ UNCHANGED << bound, now, published, permQ >>

DisconnectResume(c) ==
  /\ BagIn(H("disconnect", c, NoTopic), pending)
  /\ pending' = Finish(H("disconnect", c, NoTopic))
  /\ Becomes(handleDisconnectResume(St, c))
  /\ UNCHANGED << bound, now, requests, published, permQ >>

DisconnectCatch(c) ==
  /\ BagIn(H("disconnect", c, NoTopic), pending)
  /\ pending' = Finish(H("disconnect", c, NoTopic))
  /\ UNCHANGED << connections, connObj, channels, sequenceNumbers, rooms,
                  socket, bound, now, requests, published, out, permQ >>

\* the periodic sweep; `dbOk`: Connection.updateMany resolved
cleanupStaleConnections(timeoutMs, dbOk) ==
  LET stale  == Stale(St, now, timeoutMs)
      closed == { c \in stale : socket[c] = "connected" }
      S1     == CloseAll(St, closed)
  IN /\ Receive
     /\ Becomes([S1 EXCEPT !.out =
                   [NoOut EXCEPT !.op = "cleanup", !.stale = stale,
                                 !.type = IF dbOk THEN "return" ELSE "error",
                                 !.count = IF dbOk THEN Cardinality(stale) ELSE 0]])
     /\ pending' = pending (+) DisconnectHandlers(closed)
     /\ UNCHANGED << bound, now, published, permQ >>

Next ==
  \/ Tick
  \/ \E c \in ConnIds : \E u \in Handshake(c) : Connection(c, u)
  \/ \E c \in ConnIds : ConnectionResume(c)
  \/ \E c \in ConnIds : ConnectionCatch(c)
  \/ \E c \in ConnIds, t \in Topics : Subscribe(c, t)
  \/ \E c \in ConnIds, t \in Topics : SubscribeResume(c, t)
  \/ \E c \in ConnIds, t \in Topics : SubscribeCatch(c, t)
  \/ \E c \in ConnIds, t \in Topics : Unsubscribe(c, t)
  \/ \E c \in ConnIds, t \in Topics : UnsubscribeResume(c, t)
  \/ \E c \in ConnIds, t \in Topics : UnsubscribeCatch(c, t)
  \/ \E c \in ConnIds, t \in Topics, a \in BOOLEAN : Publish(c, t, a)
  \/ \E c \in ConnIds : Heartbeat(c)
  \/ \E c \in ConnIds : HeartbeatResume(c)
  \/ \E c \in ConnIds : HeartbeatCatch(c)
  \/ \E c \in ConnIds : SocketDisconnect(c)
  \/ \E c \in ConnIds : DisconnectResume(c)
  \/ \E c \in ConnIds : DisconnectCatch(c)
  \/ \E ms \in Timeouts, ok \in BOOLEAN : cleanupStaleConnections(ms, ok)

Spec == Init /\ [][Next]_vars


(* ---------------- the service's methods called directly --------------- *)
\* handleDisconnect(connectionId, reason) called by any caller, whatever the
\* transport state of the socket: the part up to its await
handleDisconnectCall(c) ==
  /\ Receive
  /\ pending' = IF c \in connections
                  THEN Suspend(H("disconnect", c, NoTopic))
                  ELSE pending
  /\ UNCHANGED << connections, connObj, channels, sequenceNumbers, rooms,
                  socket, bound, now, published, out, permQ >>

\* handleConnection(socket) called for a socket whose id is in the registry:
\* the part up to its await
handleConnectionCall(c, user) ==
  /\ Receive
  /\ Room
  /\ c \in connections
  /\ Becomes(handleConnection(St, c, user, now))
  /\ pending' = Suspend(H("connect", c, NoTopic))
  /\ UNCHANGED << bound, now, published, permQ >>

NextApi ==
  \/ Next
  \/ \E c \in ConnIds : handleDisconnectCall(c)
  \/ \E c \in ConnIds : \E u \in Handshake(c) : handleConnectionCall(c, u)

SpecApi == Init /\ [][NextApi]_vars

(* ---------------- clients that use other topic names ------------------ *)
\* the subscribe, unsubscribe and publish requests of clients whose topic
\* names are those of OtherTopics
NextOther ==
  \/ \E c \in ConnIds : \E u \in Handshake(c) : Connection(c, u)
  \/ \E c \in ConnIds : ConnectionResume(c)
  \/ \E c \in ConnIds, t \in OtherTopics : Subscribe(c, t)
  \/ \E c \in ConnIds, t \in OtherTopics : SubscribeResume(c, t)
  \/ \E c \in ConnIds, t \in OtherTopics : SubscribeCatch(c, t)
  \/ \E c \in ConnIds, t \in OtherTopics : Unsubscribe(c, t)
  \/ \E c \in ConnIds, t \in OtherTopics : UnsubscribeResume(c, t)
  \/ \E c \in ConnIds, t \in OtherTopics : UnsubscribeCatch(c, t)
  \/ \E c \in ConnIds, t \in OtherTopics, a \in BOOLEAN : Publish(c, t, a)
  \/ \E c \in ConnIds : SocketDisconnect(c)
  \/ \E c \in ConnIds : DisconnectResume(c)

SpecOther == Init /\ [][NextOther]_vars

(* ---------------- a sweep in which a transport close raises ----------- *)
\* this.connections is a Map: the sweep iterates it in insertion order.  The
\* clients of this specification connect in the order of IterationOrder.
IterationOrder == << "s1", "s2" >>

Position(c) == CHOOSE i \in 1 .. Len(IterationOrder) : IterationOrder[i] = c

ConnectionInOrder(c, user) ==
  /\ \A d \in ConnIds : Position(d) < Position(c) => socket[d] # "new"
  /\ Connection(c, user)

\* cleanupStaleConnections in which connection.socket.disconnect(true) raises
\* for the stale connection x: the loop has closed the stale connections
\* before x, the exception leaves the loop and the catch block returns 0.
\* `closedX`: the socket of x was closed before the error was raised.
cleanupStaleConnectionsThrows(timeoutMs, x, closedX) ==
  LET stale  == Stale(St, now, timeoutMs)
      upTo   == { c \in stale : Position(c) < Position(x) \/ (closedX /\ c = x) }
      closed == { c \in upTo : socket[c] = "connected" }
      S1     == CloseAll(St, closed)
  IN /\ Receive
     /\ x \in stale
     /\ Becomes([S1 EXCEPT !.out =
                   [NoOut EXCEPT !.op = "cleanup", !.stale = stale,
                                 !.failed = {x}, !.type = "error",
                                 !.count = 0]])
     /\ pending' = pending (+) DisconnectHandlers(closed)
     /\ UNCHANGED << bound, now, published, permQ >>

NextSweep ==
  \/ Tick
  \/ \E c \in ConnIds : \E u \in Handshake(c) : ConnectionInOrder(c, u)
  \/ \E c \in ConnIds : ConnectionResume(c)
  \/ \E c \in ConnIds, t \in Topics : Subscribe(c, t)
  \/ \E c \in ConnIds, t \in Topics : SubscribeResume(c, t)
  \/ \E c \in ConnIds : Heartbeat(c)
  \/ \E c \in ConnIds : HeartbeatResume(c)
  \/ \E c \in ConnIds : SocketDisconnect(c)
  \/ \E c \in ConnIds : DisconnectResume(c)
  \/ \E ms \in Timeouts, ok \in BOOLEAN : cleanupStaleConnections(ms, ok)
  \/ \E ms \in Timeouts, x \in ConnIds, cx \in BOOLEAN :
        cleanupStaleConnectionsThrows(ms, x, cx)

SpecSweep == Init /\ [][NextSweep]_vars

(* ---------------- every persistence call resolves --------------------- *)
\* the subscribe, unsubscribe and disconnect handlers, interleaved at their
\* awaits, when no persistence call is rejected
NextResolve ==
  \/ \E c \in ConnIds : \E u \in Handshake(c) : Connection(c, u)
  \/ \E c \in ConnIds : ConnectionResume(c)
  \/ \E c \in ConnIds, t \in Topics : Subscribe(c, t)
  \/ \E c \in ConnIds, t \in Topics : SubscribeResume(c, t)
  \/ \E c \in ConnIds, t \in Topics : Unsubscribe(c, t)
  \/ \E c \in ConnIds, t \in Topics : UnsubscribeResume(c, t)
  \/ \E c \in ConnIds : SocketDisconnect(c)
  \/ \E c \in ConnIds : DisconnectResume(c)

SpecResolve == Init /\ [][NextResolve]_vars

(* ---------------- every persistence update rejects --------------------- *)
\* the handlers of subscribe and unsubscribe when Connection.findOneAndUpdate
\* rejects every time (the database is unreachable): each of them ends in
\* its catch block; no topic entry is ever created, so every publish is
\* answered channel_not_found
NextReject ==
  \/ \E c \in ConnIds : \E u \in Handshake(c) : Connection(c, u)
  \/ \E c \in ConnIds : ConnectionResume(c)
  \/ \E c \in ConnIds, t \in Topics : Subscribe(c, t)
  \/ \E c \in ConnIds, t \in Topics : SubscribeCatch(c, t)
  \/ \E c \in ConnIds, t \in Topics : Unsubscribe(c, t)
  \/ \E c \in ConnIds, t \in Topics : UnsubscribeCatch(c, t)
  \/ \E c \in ConnIds, t \in Topics, a \in BOOLEAN : Publish(c, t, a)

SpecReject == Init /\ [][NextReject]_vars

(* ---------------- getStats ---------------------------------------------- *)
\* Array.from(this.channels.values()).reduce((total, channel) =>
\*   total + channel.messageCount, 0)
RECURSIVE SumMessageCount(_, _)
SumMessageCount(chs, ts) ==
  IF ts = {} THEN 0
  ELSE LET t == CHOOSE x \in ts : TRUE
       IN chs[t].messageCount + SumMessageCount(chs, ts \ {t})

\* getStats from the point at which its persistence queries are settled:
\* the returned object is built from the maps as they are then.
\* `dbOk`: the queries resolved; otherwise the catch block builds the object
getStats(dbOk) ==
  /\ Receive
  /\ out' = [NoOut EXCEPT
               !.op = "stats",
               !.type = IF dbOk THEN "return" ELSE "error",
               !.count = IF dbOk
                           THEN SumMessageCount(channels, DOMAIN channels)
                           ELSE 0]
  /\ UNCHANGED << connections, connObj, channels, sequenceNumbers, rooms,
                  socket, bound, pending, now, published, permQ >>

NextStats ==
  \/ \E c \in ConnIds : \E u \in Handshake(c) : Connection(c, u)
  \/ \E c \in ConnIds : ConnectionResume(c)
  \/ \E c \in ConnIds, t \in Topics : Subscribe(c, t)
  \/ \E c \in ConnIds, t \in Topics : SubscribeResume(c, t)
  \/ \E c \in ConnIds, t \in Topics : Unsubscribe(c, t)
  \/ \E c \in ConnIds, t \in Topics : UnsubscribeResume(c, t)
  \/ \E c \in ConnIds, t \in Topics, a \in BOOLEAN : Publish(c, t, a)
  \/ \E ok \in BOOLEAN : getStats(ok)

SpecStats == Init /\ [][NextStats]_vars

(* ---------------- every suspended handler is eventually settled ------- *)
\* the persistence call a handler awaits is eventually resolved or rejected,
\* and the event loop then runs the rest of the handler
Settles ==
  /\ \A c \in ConnIds :
        /\ WF_vars(ConnectionResume(c) \/ ConnectionCatch(c))
        /\ WF_vars(HeartbeatResume(c) \/ HeartbeatCatch(c))
        /\ WF_vars(DisconnectResume(c) \/ DisconnectCatch(c))
  /\ \A c \in ConnIds, t \in Topics :
        /\ WF_vars(SubscribeResume(c, t) \/ SubscribeCatch(c, t))
        /\ WF_vars(UnsubscribeResume(c, t) \/ UnsubscribeCatch(c, t))

SpecLive == Init /\ [][Next]_vars /\ Settles

(* ---------------- hasPermission evaluated on its inputs --------------- *)
InitPerm ==
  /\ InitService
  /\ permQ \in [user : Principals, topic : TopicNames, action : Actions,
                result : {"none"}]

Evaluate ==
  /\ permQ.result = "none"
  /\ permQ' = [permQ EXCEPT
                 !.result = hasPermission(permQ.user, permQ.topic, permQ.action)]
  /\ UNCHANGED << connections, connObj, channels, sequenceNumbers, rooms,
                  socket, bound, pending, now, requests, published, out >>

SpecPerm == InitPerm /\ [][Evaluate]_vars

TypeOK ==
  /\ connections \subseteq ConnIds
  /\ DOMAIN channels \subseteq Topics
  /\ DOMAIN sequenceNumbers \subseteq Topics

(* ====================================================================== *)
(* Claims                                                                 *)
(* ====================================================================== *)

\* C1: every topic entry of the channel directory has at least one
\* subscriber, in every reachable state: the step that removes the last
\* subscriber removes the entry, so no entry with zero subscribers persists.
C1_NoEmptyTopic ==
  \A t \in DOMAIN channels : channels[t].subscribers # {}

\* the last unsubscribe was acknowledged and its topic is gone, another
\* topic still being in the directory
C1_Witness ==
  /\ out.op = "unsubscribe" /\ out.type = "ack" /\ out.count = 0
  /\ out.topic \notin DOMAIN channels
  /\ DOMAIN channels # {}

\* C2: for every topic name the n-th successful publish is given seq n:
\* 1, 2, 3, ... in publish order, none twice, none skipped, whoever publishes.
C2_SequenceOrder ==
  /\ \A t \in Topics : GetOr0(sequenceNumbers, t) = published[t]
  /\ out.emitted => out.seq = published[out.topic]

\* a second message on a topic, published by a connection of a non-admin
C2_Witness ==
  /\ out.emitted /\ out.seq = 2
  /\ connObj[out.conn].user.role = RoleUser

\* C3: a publish to a topic name without an entry in the directory is
\* answered with the error channel_not_found and creates no entry, advances
\* no sequence number or message count and emits no message.
C3_PublishToMissingTopic ==
  [][\A c \in ConnIds, t \in Topics, a \in BOOLEAN :
       (Publish(c, t, a) /\ t \notin DOMAIN channels) =>
          /\ out'.type = "error" /\ out'.code = "channel_not_found"
          /\ ~out'.emitted
          /\ channels' = channels
          /\ sequenceNumbers' = sequenceNumbers
          /\ rooms' = rooms]_vars

\* a publish was rejected for a missing topic while another topic had
\* already been published to
C3_Witness ==
  /\ out.op = "publish" /\ out.code = "channel_not_found"
  /\ out.topic \notin DOMAIN channels
  /\ \E t \in DOMAIN channels : channels[t].messageCount > 0

(* ---- C4: the authorization table of the documentation ---- *)
\* the characters of s up to its first ":" (all of s if it has none)
RECURSIVE UpToColon(_)
UpToColon(s) ==
  IF s = << >> \/ Head(s) = ":" THEN << >>
  ELSE << Head(s) >> \o UpToColon(Tail(s))

\* the <id> of a topic name user:<id> or user:<id>:...
UserTopicId(name) == UpToColon(SubSeq(name, Len(USER_) + 1, Len(name)))

AuthorizationTable(user, topic, action) ==
  LET name == Chars(topic)
  IN IF user.role = RoleAdmin THEN TRUE
     ELSE IF StartsWith(name, PUBLIC_) THEN TRUE
     ELSE IF StartsWith(name, PRIVATE_)
       THEN PrivateChannelAccess \in user.permissions
     ELSE IF StartsWith(name, USER_)
       THEN UserTopicId(name) = Chars(user.userId)
     ELSE IF StartsWith(name, SYSTEM_) THEN action = "subscribe"
     ELSE FALSE

\* what the callers' `if (!this.hasPermission(...))` makes of the result
Truthy(v) == v = "true"

\* C4: hasPermission allows, for every principal, topic name and action,
\* exactly what the authorization table allows.
C4_AuthorizationTable ==
  permQ.result # "none" =>
    (Truthy(permQ.result) <=>
       AuthorizationTable(permQ.user, permQ.topic, permQ.action))

\* C5: no connection is a subscriber of a topic its principal may not
\* subscribe to, and no message is emitted for a publisher that may not
\* publish to the topic.
C5_AuthorizationGates ==
  /\ \A t \in DOMAIN channels : \A c \in channels[t].subscribers :
        hasPermission(connObj[c].user, t, "subscribe") = "true"
  /\ out.emitted =>
        hasPermission(connObj[out.conn].user, out.topic, "publish") = "true"

\* C6: when a message is published to a topic with several subscribers and
\* the send to one of them fails, the deliveredTo of the acknowledgement is
\* the number of sends that succeeded.
C6_DeliveredCount ==
  (out.op = "publish" /\ out.type = "ack" /\ out.failed # {}
     /\ out.deliveredTo >= 2) =>
        out.deliveredTo = Cardinality(out.recipients)

(* ---- C7: unsubscribe, run to completion with the persistence call ---- *)
(* ---- resolving                                                     ---- *)
UnsubscribeOnce(S, c, t) ==
  handleUnsubscribeResume(handleUnsubscribe(S, c, t), c, t)

DisconnectOnce(S, c) ==
  IF c \in S.connections THEN handleDisconnectResume(S, c) ELSE S

MaxPublishes == 2

RECURSIVE PublishTimes(_, _, _, _)
PublishTimes(S, c, t, n) ==
  IF n = 0 THEN S
  ELSE PublishTimes(handlePublish(S, c, t, TRUE), c, t, n - 1)

SubscribeOnce(S, c, t) ==
  handleSubscribeResume(handleSubscribe(S, c, t), c, t)

RoundTrip(S, c, p, t, n) ==
  UnsubscribeOnce(PublishTimes(SubscribeOnce(S, c, t), p, t, n), c, t)

C10_TwoSidesAgree ==
  pending = EmptyBag =>
    \A c \in connections, t \in Topics :
      t \in connObj[c].subscribedChannels <=>
        (t \in DOMAIN channels /\ c \in channels[t].subscribers)

\* C11: when handleDisconnect(c) has completed, c is not in the registry, c
\* is in no topic's subscriber set, and every topic whose only subscriber
\* was c is gone from the directory.
C11_DisconnectReclaims ==
  [][\A c \in ConnIds :
       DisconnectResume(c) =>
          /\ c \notin connections'
          /\ \A t \in DOMAIN channels' : c \notin channels'[t].subscribers
          /\ \A t \in DOMAIN channels :
                channels[t].subscribers = {c} => t \notin DOMAIN channels']_vars

\* C12: when cleanupStaleConnections(timeout) has returned its count and the
\* disconnect handlers it started have finished, every connection that was
\* stale at the scan is gone from the registry and from every subscriber
\* set, its socket is closed, and the count is the number of those
\* connections.
C12_SweepReclaims ==
  ( /\ out.op = "cleanup" /\ out.type = "return"
    /\ \A c \in out.stale : ~BagIn(H("disconnect", c, NoTopic), pending) ) =>
      /\ \A c \in out.stale :
            /\ socket[c] = "disconnected"
            /\ c \notin connections
            /\ \A t \in DOMAIN channels : c \notin channels[t].subscribers
      /\ out.count = Cardinality(out.stale)

\* C13: every connection of the registry whose socket has closed is
\* eventually out of the registry and out of every subscriber set, when
\* every suspended handler is eventually settled.
C13_EventuallyReclaimed ==
  \A c \in ConnIds :
    (c \in connections /\ socket[c] = "disconnected") ~>
       ( /\ c \notin connections
         /\ \A t \in DOMAIN channels : c \notin channels[t].subscribers )

\* C14: a connection that stays subscribed to a topic receives the topic's
\* messages with consecutive sequence numbers.  Sequence numbers are
\* consecutive in publish order and a publish sends its message once, so
\* this is: every message published to a topic is sent to every connection
\* that is in the topic's subscriber set, has an open socket and has no
\* unsubscribe from the topic in progress.
C14_NoMessageSkipped ==
  [][\A p \in ConnIds, t \in Topics, a \in BOOLEAN :
       (Publish(p, t, a) /\ out'.emitted) =>
          /\ out'.seq = GetOr0(sequenceNumbers, t) + 1
          /\ \A c \in channels[t].subscribers :
                ( /\ socket[c] = "connected"
                  /\ ~BagIn(H("unsubscribe", c, t), pending) )
                   => c \in out'.recipients]_vars

(* ---- C15: one response per request ---- *)
\* the step answers the request (op, c, t)
Answers(op, c, t) == out'.op = op /\ out'.conn = c /\ out'.topic = t

\* an error response: it has a code, and the connection stays registered
\* with its socket open
AnswersError(op, c, t) ==
  /\ Answers(op, c, t) /\ out'.type = "error" /\ out'.code # "none"
  /\ connections' = connections /\ socket' = socket

SubscriberCount(chs, t) ==
  IF t \in DOMAIN chs THEN Cardinality(chs[t].subscribers) ELSE 0

\* a handler with an await answers either before suspending (an error) or
\* when it is resumed (the success ack with the subscriber count) or when
\* its await rejects (an error), and at no other step
AwaitingHandlerAnswersOnce(c, t) ==
  /\ Subscribe(c, t) =>
        \/ pending' # pending /\ out' = out
        \/ pending' = pending /\ AnswersError("subscribe", c, t)
  /\ SubscribeResume(c, t) =>
        /\ Answers("subscribe", c, t) /\ out'.type = "ack"
        /\ out'.code = "success" /\ out'.count = SubscriberCount(channels', t)
  /\ SubscribeCatch(c, t) => AnswersError("subscribe", c, t)
  /\ Unsubscribe(c, t) =>
        \/ pending' # pending /\ out' = out
        \/ pending' = pending /\ AnswersError("unsubscribe", c, t)
  /\ UnsubscribeResume(c, t) =>
        /\ Answers("unsubscribe", c, t) /\ out'.type = "ack"
        /\ out'.code = "success" /\ out'.count = SubscriberCount(channels', t)
  /\ UnsubscribeCatch(c, t) => AnswersError("unsubscribe", c, t)

\* the one step of a publish answers with the success ack (sequence number
\* and delivered count) or with an error
PublishAnswers(c, t) ==
  \/ /\ Answers("publish", c, t) /\ out'.type = "ack" /\ out'.code = "success"
     /\ out'.seq = sequenceNumbers'[t]
     /\ out'.deliveredTo = Cardinality(channels'[t].subscribers)
  \/ AnswersError("publish", c, t)

C16_ResponseCarriesId ==
  (out.op \in {"subscribe", "unsubscribe", "publish"}
     /\ out.type \in {"ack", "error"}) =>
        out.id = MessageId(out.op, out.conn, out.topic)

(* ---- C17: the example trace on system:alerts ---- *)
\* the directory holds system:alerts alone, subscribed to by admins only
OnlyAdminsOnAlerts ==
  /\ DOMAIN channels = {"system:alerts"}
  /\ channels["system:alerts"].subscribers # {}
  /\ \A c \in channels["system:alerts"].subscribers :
        connObj[c].user.role = RoleAdmin

\* C17: with an admin as the only subscriber of system:alerts, the admin's
\* subscribe was acknowledged with 1 subscriber, a publish to system:alerts
\* by a role=user connection is rejected with permission_denied and changes
\* nothing, and the admin's first publish gets seq 1, delivered to 1.
C17_ExampleTrace ==
  (OnlyAdminsOnAlerts /\ out.topic = "system:alerts") =>
    /\ (out.op = "subscribe" /\ out.type = "ack") => out.count = 1
    /\ (out.op = "publish" /\ connObj[out.conn].user.role = RoleUser) =>
          /\ out.type = "error" /\ out.code = "permission_denied"
          /\ ~out.emitted
          /\ channels["system:alerts"].messageCount = published["system:alerts"]
    /\ (out.op = "publish" /\ connObj[out.conn].user.role = RoleAdmin
          /\ out.type = "ack" /\ published["system:alerts"] = 1) =>
          out.seq = 1 /\ out.deliveredTo = 1

\* C18: for a principal that is not an admin and a topic user:<id>,
\* hasPermission allows subscribe and publish exactly if <id> is the
\* principal's id; it denies the user topic of every other principal, an id
\* that merely starts with the principal's id included.
C18_OwnUserTopicOnly ==
  ( /\ permQ.result # "none"
    /\ permQ.user.role # RoleAdmin
    /\ StartsWith(Chars(permQ.topic), USER_) ) =>
       ( Truthy(permQ.result) <=>
           UserTopicId(Chars(permQ.topic)) = Chars(permQ.user.userId) )

(* ---- C19: topic names without a known prefix ---- *)
KnownPrefix(t) ==
  \/ StartsWith(Chars(t), PUBLIC_) \/ StartsWith(Chars(t), PRIVATE_)
  \/ StartsWith(Chars(t), USER_)   \/ StartsWith(Chars(t), SYSTEM_)

\* C19: a subscribe to a topic name with none of the prefixes public:,
\* private:, user:, system: is answered with the error invalid_topic and
\* joins no room, adds no membership and starts nothing that would create
\* a topic entry.
C19_InvalidTopicRejected ==
  [][\A c \in ConnIds, t \in OtherTopics :
       (Subscribe(c, t) /\ ~KnownPrefix(t)) =>
          /\ out'.type = "error" /\ out'.code = "invalid_topic"
          /\ rooms' = rooms /\ connObj' = connObj /\ channels' = channels
          /\ pending' = pending]_vars

\* C20: handleConnection for a connection id that is already in the
\* registry fails with the error duplicate_connection and leaves the
\* existing record (principal, timestamps, subscribedChannels) as it was.
C20_DuplicateConnection ==
  [][\A c \in ConnIds : \A u \in Handshake(c) :
       (handleConnectionCall(c, u) /\ connObj[c].subscribedChannels # {}) =>
          /\ connObj'[c] = connObj[c]
          /\ out'.type = "error" /\ out'.code = "duplicate_connection"]_vars

\* C21: the deliveredTo of a publish's success ack is the number of
\* connections the message was emitted to: the topic's subscriber set and
\* the set of sockets the broadcast reaches are the same set at the publish,
\* whatever subscribe, unsubscribe and disconnect handlers are in progress.
C21_DeliveredIsEmitted ==
  (out.op = "publish" /\ out.type = "ack") =>
     out.deliveredTo = Cardinality(out.recipients)

\* C22: when the close of one stale connection raises an error during
\* cleanupStaleConnections, the sweep has still closed every other stale
\* connection and returns the number of connections it closed.
C22_SweepFailureIsolated ==
  (out.op = "cleanup" /\ out.failed # {}) =>
     /\ \A c \in out.stale \ out.failed : socket[c] = "disconnected"
     /\ out.count >= Cardinality(out.stale \ out.failed)

SerialOutcome ==
  /\ \A c \in connections, t \in Topics :
       /\ t \in connObj[c].subscribedChannels <=>
            (t \in DOMAIN channels /\ c \in channels[t].subscribers)
       /\ socket[c] = "connected" =>
            (c \in rooms[t] <=> t \in connObj[c].subscribedChannels)
  /\ \A t \in DOMAIN channels : channels[t].subscribers \subseteq connections

\* C24: when all the subscribe, unsubscribe and disconnect handlers that ran
\* interleaved have finished, the state is one that some serial execution of
\* the same operations reaches.
C24_Serializable == pending = EmptyBag => SerialOutcome

\* C25: a publish fails with connection_not_found if its connection is not
\* registered; otherwise with permission_denied if the principal may not
\* publish to the topic; otherwise with channel_not_found if the topic has no
\* entry.  An unauthorized publish to a topic without entry is answered with
\* permission_denied.
C25_PublishPrecedence ==
  [][\A c \in ConnIds, t \in Topics, a \in BOOLEAN :
       Publish(c, t, a) =>
         IF c \notin connections
           THEN out'.type = "error" /\ out'.code = "connection_not_found"
         ELSE IF ~Truthy(hasPermission(connObj[c].user, t, "publish"))
           THEN out'.type = "error" /\ out'.code = "permission_denied"
         ELSE t \notin DOMAIN channels =>
                out'.type = "error" /\ out'.code = "channel_not_found"]_vars

\* C26: a heartbeat for a connection id that is not in the registry answers
\* nothing, starts nothing and changes nothing; a heartbeat for a registered
\* connection changes the lastActivity of that connection and nothing else
\* of the registry, the directory and the counters.
C26_HeartbeatFrame ==
  [][\A c \in ConnIds :
       Heartbeat(c) =>
         /\ connections' = connections /\ channels' = channels
         /\ sequenceNumbers' = sequenceNumbers /\ rooms' = rooms
         /\ out' = out
         /\ IF c \in connections
              THEN connObj' = [connObj EXCEPT ![c].lastActivity = now]
              ELSE connObj' = connObj /\ pending' = pending]_vars

\* a socket that is open and listening has no connection in the registry
\* any more, and the service can receive its heartbeat
C26_Witness ==
  \E c \in ConnIds :
    /\ Listening(c) /\ c \notin connections
    /\ pending = EmptyBag /\ requests < MaxRequests
    /\ DOMAIN channels # {}

C28_ReceiversAreSubscribers ==
  [][\A p \in ConnIds, t \in Topics, a \in BOOLEAN :
       (Publish(p, t, a) /\ out'.emitted) =>
          out'.recipients \subseteq channels[t].subscribers]_vars

\* C29: a connection is joined to the room named t exactly if its id is in
\* the subscriber set of topic t.  Checked for connections with an open
\* socket in the states in which no handler is suspended.
C29_RoomMirrorsDirectory ==
  pending = EmptyBag =>
    \A c \in ConnIds, t \in Topics :
      socket[c] = "connected" =>
        (c \in rooms[t] <=>
           (t \in DOMAIN channels /\ c \in channels[t].subscribers))

\* C30: staleness is the time since the last heartbeat.  A heartbeat sets
\* the lastActivity of its connection to the current time, so that the
\* connection is stale for no timeout at that time; nothing moves the
\* lastActivity of a registered connection back; and a sweep selects a
\* connection only if more than the timeout has passed since its
\* lastActivity.  A connection whose heartbeats are never more than the
\* timeout apart is therefore never selected.
C30_HeartbeatResetsStaleness ==
  [][\A c \in ConnIds :
       /\ (Heartbeat(c) /\ c \in connections) =>
            /\ connObj'[c].lastActivity = now
            /\ \A ms \in Timeouts : c \notin Stale(St', now', ms)
       /\ (c \in connections /\ c \in connections') =>
            connObj'[c].lastActivity >= connObj[c].lastActivity
       /\ \A ms \in Timeouts, ok \in BOOLEAN :
            (cleanupStaleConnections(ms, ok) /\ c \in out'.stale) =>
               now - connObj[c].lastActivity > ms]_vars

\* a sweep has selected a connection and has not selected another one,
\* whose heartbeat at the current time is still being handled
C30_Witness ==
  /\ out.op = "cleanup" /\ out.stale # {}
  /\ \E c \in connections \ out.stale :
       /\ BagIn(H("heartbeat", c, NoTopic), pending)
       /\ connObj[c].lastActivity = now /\ now > 0

\* C31: when no handler is in progress, every connection id in a topic's
\* subscriber set is the id of a connection of the registry.
C31_NoGhostSubscriber ==
  pending = EmptyBag =>
    \A t \in DOMAIN channels : channels[t].subscribers \subseteq connections

\* C32: the sequence counter of a topic name never goes back, whatever
\* happens to the topic's entry; a publish gets a seq greater than every seq
\* issued for the name before; and an entry that is created, again or for
\* the first time, starts with messageCount 0.
C32_SequenceNeverReused ==
  [][\A t \in Topics :
       /\ GetOr0(sequenceNumbers', t) >= GetOr0(sequenceNumbers, t)
       /\ (\E c \in ConnIds, a \in BOOLEAN : Publish(c, t, a) /\ out'.emitted) =>
             out'.seq > published[t] /\ out'.seq > GetOr0(sequenceNumbers, t)
       /\ (t \notin DOMAIN channels /\ t \in DOMAIN channels') =>
             channels'[t].messageCount = 0]_vars

\* a message was published to a topic that had been published to, deleted
\* and created again: its seq is beyond the entry's messageCount
C32_Witness ==
  /\ out.emitted /\ out.topic \in DOMAIN channels
  /\ channels[out.topic].messageCount = 1
  /\ out.seq = 2

\* C33: a topic entry is created with messageCount 0, a successful publish
\* to the topic adds exactly 1 to it, no other step changes it, and the
\* totalMessages that getStats reports is the sum of messageCount over the
\* topics of the directory.
C33_MessageCount ==
  [][/\ \A t \in Topics :
          /\ (t \notin DOMAIN channels /\ t \in DOMAIN channels') =>
                channels'[t].messageCount = 0
          /\ (t \in DOMAIN channels /\ t \in DOMAIN channels') =>
                channels'[t].messageCount =
                  channels[t].messageCount
                    + (IF published'[t] > published[t] THEN 1 ELSE 0)
     /\ \A ok \in BOOLEAN :
          getStats(ok) =>
            out'.count = SumMessageCount(channels, DOMAIN channels)]_vars

\* C34: the lastActivity of a registered connection changes only in a step
\* of its own heartbeat (a new connection gets it when it is registered);
\* subscribe, unsubscribe and publish steps leave it as it was, and a sweep
\* selects every registered connection whose lastActivity is older than the
\* timeout, whatever it has subscribed to or published since.
C34_OnlyHeartbeatRefreshes ==
  [][/\ \A c \in connections \cap connections' :
          connObj'[c].lastActivity # connObj[c].lastActivity =>
            Heartbeat(c)
     /\ \A c \in connections' \ connections :
          (\E u \in Handshake(c) : Connection(c, u))
            /\ connObj'[c].lastActivity = now
     /\ \A ms \in Timeouts, ok \in BOOLEAN :
          cleanupStaleConnections(ms, ok) =>
            out'.stale =
              { c \in connections : now - connObj[c].lastActivity > ms }]_vars

\* a sweep has selected the only registered connection although it is
\* subscribed to a topic on which a message was published
C34_Witness ==
  /\ out.op = "cleanup"
  /\ \E c \in out.stale, t \in Topics :
       /\ connections = {c}
       /\ t \in connObj[c].subscribedChannels
       /\ t \in DOMAIN channels
       /\ c \in channels[t].subscribers
       /\ channels[t].messageCount >= 1

\* C35: a subscribe, unsubscribe or publish answered by an error leaves the
\* registry, the subscriber sets, the membership sets, the sequence counters
\* and the message counts as they were and delivers nothing. Where every
\* persistence update rejects, every such request is answered by an error:
\* whenever no handler is in progress, no connection has a membership, no
\* socket is in a room, no topic entry and no sequence counter exists and
\* nothing was delivered.
C35_ErrorLeavesStateUnchanged ==
  /\ (out.type = "error" => ~out.emitted /\ out.recipients = {})
  /\ pending = EmptyBag =>
       /\ \A c \in connections : connObj[c].subscribedChannels = {}
       /\ \A t \in Topics : rooms[t] = {} /\ published[t] = 0
       /\ channels = << >>
       /\ sequenceNumbers = << >>

\* the other connections and the topics a step of connection c on the topics
\* `own` must leave alone
OthersUntouched(c, own) ==
  /\ \A d \in ConnIds \ {c} :
       /\ (d \in connections') = (d \in connections)
       /\ connObj'[d] = connObj[d]
       /\ socket'[d] = socket[d]
  /\ \A t \in Topics : rooms'[t] \ {c} = rooms[t] \ {c}
  /\ DOMAIN channels' \subseteq DOMAIN channels
  /\ \A t \in DOMAIN channels :
       /\ (t \notin own \/ c \notin channels[t].subscribers) =>
             t \in DOMAIN channels' /\ channels'[t] = channels[t]
       /\ channels[t].subscribers \ {c} # {} =>
             /\ t \in DOMAIN channels'
             /\ channels[t].subscribers \ {c} \subseteq channels'[t].subscribers
             /\ channels'[t].subscribers \subseteq channels[t].subscribers
             /\ channels'[t].messageCount = channels[t].messageCount

\* C36: every step of an unsubscribe or of a disconnect of one connection
\* leaves every other connection's registration, record, socket and room
\* memberships unchanged, leaves unchanged every topic the connection is not
\* a subscriber of, and keeps every topic that has another subscriber,
\* with all its other subscribers.
C36_OnlyOwnMemberships ==
  [][\A c \in ConnIds :
       /\ \A t \in Topics :
            (Unsubscribe(c, t) \/ UnsubscribeResume(c, t) \/ UnsubscribeCatch(c, t))
              => OthersUntouched(c, {t})
       /\ (SocketDisconnect(c) \/ DisconnectResume(c) \/ DisconnectCatch(c))
              => OthersUntouched(c, Topics)]_vars

\* a disconnected connection has been removed from the registry and a topic
\* of its membership set is still in the directory with the other subscriber
C36_Witness ==
  /\ pending = EmptyBag
  /\ \E c \in ConnIds, d \in connections, t \in DOMAIN channels :
       /\ c # d /\ c \in bound /\ c \notin connections
       /\ socket[c] = "disconnected"
       /\ t \in connObj[c].subscribedChannels
       /\ channels[t].subscribers = {d}

\* C37: a sweep with timeout ms selects exactly the registered connections
\* whose idle time is greater than ms; it leaves the socket, the record,
\* the registration and the room memberships of every other connection
\* unchanged, and the count it returns is the number of selected connections.
C37_SweepSelection ==
  [][\A ms \in Timeouts, ok \in BOOLEAN :
       cleanupStaleConnections(ms, ok) =>
         /\ out'.stale = { c \in connections : now - connObj[c].lastActivity > ms }
         /\ \A c \in ConnIds \ out'.stale :
              /\ socket'[c] = socket[c]
              /\ connObj'[c] = connObj[c]
              /\ (c \in connections') = (c \in connections)
              /\ \A t \in Topics : (c \in rooms'[t]) = (c \in rooms[t])
         /\ out'.count = Cardinality(out'.stale)]_vars

\* C38: once handleConnection has finished for a socket, resolved or
\* rejected, the connection is in the registry only if bindEventHandlers has
\* bound the socket's handlers.
C38_RegisteredIsBound ==
  \A c \in connections :
    ~BagIn(H("connect", c, NoTopic), pending) => c \in bound

\* C39: a publish that emits a message on a topic changes that topic's
\* sequence counter and message count and nothing else: the registry, every
\* connection's record, every subscriber set, the rooms and every other
\* topic stay as they were; the publisher need not be a subscriber, and it
\* is among the receivers only if it is in the topic's subscriber set.
C39_PublishFrame ==
  [][\A c \in ConnIds, t \in Topics :
       ((\E a \in BOOLEAN : Publish(c, t, a)) /\ out'.emitted) =>
         /\ connections' = connections
         /\ connObj' = connObj
         /\ rooms' = rooms
         /\ socket' = socket
         /\ DOMAIN channels' = DOMAIN channels
         /\ \A u \in DOMAIN channels :
              /\ channels'[u].subscribers = channels[u].subscribers
              /\ u # t => channels'[u] = channels[u]
         /\ \A u \in Topics \ {t} :
              GetOr0(sequenceNumbers', u) = GetOr0(sequenceNumbers, u)
         /\ c \in out'.recipients => c \in channels[t].subscribers]_vars
====
